---- MODULE Spec2Model ----
(***************************************************************************)
(* Model of the PDF text extraction service (src/app.py).                  *)
(*                                                                         *)
(* Two POST handlers, extract_pdf and extract_multiple_pdfs, each run the  *)
(* pipeline download_pdf -> extract_text_with_pdfplumber -> (conditional)  *)
(* extract_text_with_pypdf2 -> length check.  A handler is modelled as a   *)
(* sequence of steps (pc), one step per call it makes to a collaborator,   *)
(* so that the order of the calls is observable.  The HTTP client and the  *)
(* two PDF libraries are the environment: what they answer is chosen when  *)
(* they are called.                                                        *)
(*                                                                         *)
(* Python values: an Optional[str] / Optional[bytes] is PyNone or          *)
(* PyVal(s) with s a sequence of characters / bytes.  A JSON value is a    *)
(* record tagged by its type.                                              *)
(***************************************************************************)
EXTENDS Integers, Sequences, FiniteSets, TLC

VARIABLES pc, endpoint, data, urls, i, pdf_bytes, extracted_text, results,
          response, log, obs, oracle, prev

vars == <<pc, endpoint, data, urls, i, pdf_bytes, extracted_text, results,
          response, log, obs, oracle, prev>>

(***************************************************************************)
(* Bounds of the model                                                     *)
(***************************************************************************)
MaxUrls == 2
MaxPages == 1
MaxBodyLen == 1

(***************************************************************************)
(* Python values                                                           *)
(***************************************************************************)
PyNone == [isNone |-> TRUE]

PyVal(s) == [isNone |-> FALSE, s |-> s]

\* bool(x) of an Optional[str] / Optional[bytes]: None and the empty value are falsy
Truthy(x) == ~x.isNone /\ Len(x.s) > 0

Whitespace == {" ", "\n"}

RECURSIVE LStrip(_)
LStrip(s) == IF s = <<>> \/ Head(s) \notin Whitespace THEN s ELSE LStrip(Tail(s))

RECURSIVE RStrip(_)
RStrip(s) == IF s = <<>> \/ s[Len(s)] \notin Whitespace THEN s
             ELSE RStrip(SubSeq(s, 1, Len(s) - 1))

\* str.strip()
Strip(s) == RStrip(LStrip(s))

(***************************************************************************)
(* JSON request bodies                                                     *)
(***************************************************************************)
JNull == [t |-> "null"]

JNum(n) == [t |-> "num", n |-> n]

JBool(b) == [t |-> "bool", b |-> b]

JStr(s) == [t |-> "str", s |-> s]

JArr(a) == [t |-> "arr", a |-> a]

JObj(o) == [t |-> "obj", o |-> o]

\* the characters of the two request keys
KeyChars(k) == IF k = "url" THEN <<"u", "r", "l">> ELSE <<"u", "r", "l", "s">>

\* bool(data) of a decoded JSON body
JTruthy(d) == CASE d.t = "null" -> FALSE
                [] d.t = "num" -> d.n # 0
                [] d.t = "bool" -> d.b
                [] d.t = "str" -> Len(d.s) > 0
                [] d.t = "arr" -> Len(d.a) > 0
                [] d.t = "obj" -> DOMAIN d.o # {}

\* sub is a contiguous substring of s
IsSubstring(sub, s) ==
    \E k \in 0..(Len(s) - Len(sub)) : SubSeq(s, k + 1, k + Len(sub)) = sub

\* `key in data`: "raises" for a number or a boolean (TypeError), a truth
\* value otherwise: key of a dict, element of a list, substring of a string
KeyIn(k, d) == CASE d.t = "obj" -> IF k \in DOMAIN d.o THEN "true" ELSE "false"
                 [] d.t = "arr" -> IF \E j \in 1..Len(d.a) : d.a[j] = JStr(KeyChars(k))
                                   THEN "true" ELSE "false"
                 [] d.t = "str" -> IF IsSubstring(KeyChars(k), d.s) THEN "true" ELSE "false"
                 [] OTHER -> "raises"

\* `data[key]` succeeds on a dict only (TypeError on a list or a string)
Subscriptable(d) == d.t = "obj"

(***************************************************************************)
(* Response texts                                                          *)
(***************************************************************************)
MissingUrl == "Missing 'url' parameter"

MissingUrls == "Missing 'urls' parameter (should be array)"

UrlsNotArray == "'urls' should be an array"

DownloadFailed == "Failed to download PDF"

NoTextSingle == "Could not extract readable text from PDF"

NoTextBatch == "Could not extract readable text"

InternalError == "Internal server error"

MinTextLen == 10

(***************************************************************************)
(* The environment: what the HTTP client and the PDF libraries answer      *)
(***************************************************************************)
RECURSIVE Xs(_)
Xs(n) == IF n = 0 THEN <<>> ELSE <<"x">> \o Xs(n - 1)

\* page.extract_text() of one page: None, blank, one character short of the
\* threshold, and a padded text that reaches it
PageTexts == {PyNone, PyVal(<<" ">>), PyVal(Xs(MinTextLen - 1)),
              PyVal(<<" ">> \o Xs(MinTextLen))}

RECURSIVE SeqsUpTo(_, _)
SeqsUpTo(S, n) == IF n = 0 THEN {<<>>}
                  ELSE LET shorter == SeqsUpTo(S, n - 1)
                       IN shorter \cup {Append(q, e) : q \in shorter, e \in S}

\* how a library reads a byte buffer: it raises, or it yields the pages
ParseError == [ok |-> FALSE]

ParseOutcomes == {ParseError} \cup {[ok |-> TRUE, pages |-> ps] : ps \in SeqsUpTo(PageTexts, MaxPages)}

\* one byte value suffices: the code looks at the emptiness of the content only
Bytes == {37}

Bodies == SeqsUpTo(Bytes, MaxBodyLen)

\* content-type headers with and without "pdf"; download_pdf only logs a
\* warning for the latter, which changes nothing it returns
ContentTypes == {<<"a", "/", "p", "d", "f">>, <<"h", "t", "m", "l">>}

Statuses == {200, 404}

\* outcome of requests.get(url, timeout=30) for a string url
HttpResponses ==
    {[kind |-> "connection_error"], [kind |-> "timeout"]} \cup
    {[kind |-> "response", status |-> st, content_type |-> ct, content |-> b] :
        st \in Statuses, ct \in ContentTypes, b \in Bodies}

\* requests.get raises before any traffic when url is not a string
InvalidUrl == [kind |-> "invalid_url"]

NoOracle == [set |-> FALSE]

HttpChoices(u) == IF u.t # "str" THEN {InvalidUrl}
                  ELSE IF oracle.set THEN {oracle.http} ELSE HttpResponses

PlumberChoices == IF oracle.set THEN {oracle.plumber} ELSE ParseOutcomes

Pypdf2Choices == IF oracle.set THEN {oracle.pypdf2} ELSE ParseOutcomes

(***************************************************************************)
(* download_pdf and the two extractors                                     *)
(***************************************************************************)
\* response.raise_for_status() raises on a 4xx or 5xx status
RaisesForStatus(r) == r.status >= 400 /\ r.status < 600

\* download_pdf without the raise_for_status() call
download_pdf_NoRaise(r) == IF r.kind # "response" THEN PyNone ELSE PyVal(r.content)

\* download_pdf: the content of the response, None when anything raised
download_pdf(r) == IF r.kind # "response" THEN PyNone
                   ELSE IF RaisesForStatus(r) THEN PyNone
                   ELSE PyVal(r.content)

\* the page loop shared in shape by both extractors: text += page_text + "\n"
RECURSIVE JoinPages(_)
JoinPages(pages) == IF pages = <<>> THEN <<>>
                    ELSE (IF Truthy(Head(pages)) THEN Head(pages).s \o <<"\n">> ELSE <<>>)
                         \o JoinPages(Tail(pages))

extract_text_with_pdfplumber(parse) ==
    IF ~parse.ok THEN PyNone ELSE PyVal(Strip(JoinPages(parse.pages)))

extract_text_with_pypdf2(parse) ==
    IF ~parse.ok THEN PyNone ELSE PyVal(Strip(JoinPages(parse.pages)))

(***************************************************************************)
(* Requests                                                                *)
(***************************************************************************)
UrlA == JStr(<<"a">>)

UrlB == JStr(<<"b">>)

UrlValues == {UrlA, UrlB, JNull}

UrlLists == SeqsUpTo({UrlA, UrlB}, MaxUrls) \cup {<<JNull>>}

\* bodies that are not JSON objects
NonObjectBodies == {JNull, JNum(0), JNum(5), JBool(TRUE), JStr(<<>>),
                    JStr(KeyChars("urls")), JArr(<<>>), JArr(<<UrlA>>),
                    JArr(<<JStr(KeyChars("url"))>>), JArr(<<JStr(KeyChars("urls"))>>)}

SingleBodies ==
    IF oracle.set THEN {JObj([url |-> oracle.url])}
    ELSE NonObjectBodies \cup {JObj(<<>>), JObj([urls |-> JArr(<<UrlA>>)])}
         \cup {JObj([url |-> u]) : u \in UrlValues}

BatchBodies ==
    IF oracle.set THEN {JObj([urls |-> JArr(<<oracle.url>>)])}
    ELSE NonObjectBodies \cup {JObj(<<>>), JObj([url |-> UrlA]), JObj([urls |-> UrlA]),
                               JObj([urls |-> JNull])}
         \cup {JObj([urls |-> JArr(l)]) : l \in UrlLists}

(***************************************************************************)
(* State                                                                   *)
(***************************************************************************)
NotCalled == [called |-> FALSE]

Returned(v) == [called |-> TRUE, ret |-> v]

\* an extractor call: the bytes it was given and what it returned
Extracted(arg, v) == [called |-> TRUE, arg |-> arg, ret |-> v]

\* what the collaborators answered for the URL being processed
NoObs == [http |-> NotCalled, primary |-> NotCalled, fallback |-> NotCalled,
          reported |-> FALSE]

NoResponse == [status |-> 0]

NoPrev == [set |-> FALSE]

Idle == /\ pc = "idle"
        /\ endpoint = "none"
        /\ data = JNull
        /\ urls = <<>>
        /\ i = 0
        /\ pdf_bytes = PyNone
        /\ extracted_text = PyNone
        /\ results = <<>>
        /\ response = NoResponse
        /\ log = <<>>
        /\ obs = NoObs

Init == Idle /\ oracle = NoOracle /\ prev = NoPrev

Respond(st, body) == /\ response' = [status |-> st, body |-> body]
                     /\ pc' = "done"

(***************************************************************************)
(* POST /extract-pdf                                                       *)
(***************************************************************************)
pdf_url == data.o.url

\* the fallback condition with the length test dropped
NeedsFallbackSingle_Always(t) == TRUE

\* `if not extracted_text or len(extracted_text.strip()) < 10` before the fallback
NeedsFallbackSingle(t) == ~Truthy(t) \/ Len(Strip(t.s)) < MinTextLen

\* the same condition after the fallback
UnreadableSingle(t) == ~Truthy(t) \/ Len(Strip(t.s)) < MinTextLen

extract_pdf_request ==
    /\ pc = "idle"
    /\ \E d \in SingleBodies :
        /\ data' = d
        /\ endpoint' = "/extract-pdf"
        /\ IF ~JTruthy(d) THEN Respond(400, [error |-> MissingUrl])
           ELSE IF KeyIn("url", d) = "raises" THEN Respond(500, [error |-> InternalError])
           ELSE IF KeyIn("url", d) = "false" THEN Respond(400, [error |-> MissingUrl])
           ELSE IF ~Subscriptable(d) THEN Respond(500, [error |-> InternalError])
           ELSE pc' = "download" /\ UNCHANGED response
    /\ UNCHANGED <<urls, i, pdf_bytes, extracted_text, results, log, obs, oracle, prev>>

extract_pdf_download ==
    /\ pc = "download" /\ endpoint = "/extract-pdf"
    /\ \E r \in HttpChoices(pdf_url) :
        LET b == download_pdf(r) IN
        /\ pdf_bytes' = b
        /\ log' = Append(log, [op |-> "get", url |-> pdf_url])
        /\ IF ~Truthy(b)
           THEN /\ Respond(400, [error |-> DownloadFailed, url |-> pdf_url])
                /\ obs' = [NoObs EXCEPT !.http = Returned(r), !.reported = TRUE]
           ELSE /\ pc' = "primary"
                /\ obs' = [NoObs EXCEPT !.http = Returned(r)]
                /\ UNCHANGED response
    /\ UNCHANGED <<endpoint, data, urls, i, extracted_text, results, oracle, prev>>

extract_pdf_primary ==
    /\ pc = "primary" /\ endpoint = "/extract-pdf"
    /\ \E p \in PlumberChoices :
        LET t == extract_text_with_pdfplumber(p) IN
        /\ extracted_text' = t
        /\ obs' = [obs EXCEPT !.primary = Extracted(pdf_bytes, t)]
        /\ pc' = IF NeedsFallbackSingle(t) THEN "fallback" ELSE "check"
    /\ log' = Append(log, [op |-> "pdfplumber"])
    /\ UNCHANGED <<endpoint, data, urls, i, pdf_bytes, results, response, oracle, prev>>

extract_pdf_fallback ==
    /\ pc = "fallback" /\ endpoint = "/extract-pdf"
    /\ \E p \in Pypdf2Choices :
        LET t == extract_text_with_pypdf2(p) IN
        /\ extracted_text' = t
        /\ obs' = [obs EXCEPT !.fallback = Extracted(pdf_bytes, t)]
    /\ log' = Append(log, [op |-> "pypdf2"])
    /\ pc' = "check"
    /\ UNCHANGED <<endpoint, data, urls, i, pdf_bytes, results, response, oracle, prev>>

extract_pdf_check ==
    /\ pc = "check" /\ endpoint = "/extract-pdf"
    /\ IF UnreadableSingle(extracted_text)
       THEN Respond(400, [error |-> NoTextSingle, url |-> pdf_url,
                          extracted_length |-> IF Truthy(extracted_text)
                                               THEN Len(extracted_text.s) ELSE 0])
       ELSE Respond(200, [success |-> TRUE, text |-> extracted_text.s,
                          length |-> Len(extracted_text.s), url |-> pdf_url])
    /\ obs' = [obs EXCEPT !.reported = TRUE]
    /\ UNCHANGED <<endpoint, data, urls, i, pdf_bytes, extracted_text, results, log,
                   oracle, prev>>

(***************************************************************************)
(* POST /extract-multiple                                                  *)
(***************************************************************************)
url == urls[i]

\* the fallback condition reduced to the truthiness test
NeedsFallbackBatch_NoneOnly(t) == ~Truthy(t)

\* `if not extracted_text or len(extracted_text.strip()) < 10` before the fallback
NeedsFallbackBatch(t) == ~Truthy(t) \/ Len(Strip(t.s)) < MinTextLen

\* the threshold test off by one
UnreadableBatch_OffByOne(t) == ~Truthy(t) \/ Len(Strip(t.s)) < MinTextLen - 1

\* the same condition after the fallback
UnreadableBatch(t) == ~Truthy(t) \/ Len(Strip(t.s)) < MinTextLen

\* a count of the successful results instead of the input urls
TotalProcessed_Successes == Cardinality({k \in 1..Len(results) : results[k].success})

\* "total_processed": len(urls)
TotalProcessed == Len(urls)

\* a loop that stops at the first url that fails
NextIteration_Abort ==
    /\ i' = i + 1
    /\ pc' = IF i + 1 > Len(urls) \/ ~results'[Len(results')].success
             THEN "return" ELSE "download"

\* end of one loop iteration (the append, or the continue): next url or return
NextIteration == /\ i' = i + 1
                 /\ pc' = IF i + 1 > Len(urls) THEN "return" ELSE "download"

extract_multiple_request ==
    /\ pc = "idle"
    /\ \E d \in BatchBodies :
        /\ data' = d
        /\ endpoint' = "/extract-multiple"
        /\ IF ~JTruthy(d)
           THEN Respond(400, [error |-> MissingUrls]) /\ UNCHANGED <<urls, i>>
           ELSE IF KeyIn("urls", d) = "raises"
           THEN Respond(500, [error |-> InternalError]) /\ UNCHANGED <<urls, i>>
           ELSE IF KeyIn("urls", d) = "false"
           THEN Respond(400, [error |-> MissingUrls]) /\ UNCHANGED <<urls, i>>
           ELSE IF ~Subscriptable(d)
           THEN Respond(500, [error |-> InternalError]) /\ UNCHANGED <<urls, i>>
           ELSE IF d.o.urls.t # "arr"
           THEN Respond(400, [error |-> UrlsNotArray]) /\ UNCHANGED <<urls, i>>
           ELSE /\ urls' = d.o.urls.a
                /\ i' = 1
                /\ pc' = IF Len(d.o.urls.a) = 0 THEN "return" ELSE "download"
                /\ UNCHANGED response
    /\ results' = <<>>
    /\ UNCHANGED <<pdf_bytes, extracted_text, log, obs, oracle, prev>>

extract_multiple_download ==
    /\ pc = "download" /\ endpoint = "/extract-multiple"
    /\ \E r \in HttpChoices(url) :
        LET b == download_pdf(r) IN
        /\ pdf_bytes' = b
        /\ IF ~Truthy(b)
           THEN /\ results' = Append(results, [url |-> url, success |-> FALSE,
                                               error |-> DownloadFailed])
                /\ log' = log \o <<[op |-> "get", url |-> url], [op |-> "append"]>>
                /\ obs' = [NoObs EXCEPT !.http = Returned(r), !.reported = TRUE]
                /\ NextIteration
           ELSE /\ pc' = "primary"
                /\ log' = Append(log, [op |-> "get", url |-> url])
                /\ obs' = [NoObs EXCEPT !.http = Returned(r)]
                /\ UNCHANGED <<results, i>>
    /\ UNCHANGED <<endpoint, data, urls, extracted_text, response, oracle, prev>>

extract_multiple_primary ==
    /\ pc = "primary" /\ endpoint = "/extract-multiple"
    /\ \E p \in PlumberChoices :
        LET t == extract_text_with_pdfplumber(p) IN
        /\ extracted_text' = t
        /\ obs' = [obs EXCEPT !.primary = Extracted(pdf_bytes, t)]
        /\ pc' = IF NeedsFallbackBatch(t) THEN "fallback" ELSE "check"
    /\ log' = Append(log, [op |-> "pdfplumber"])
    /\ UNCHANGED <<endpoint, data, urls, i, pdf_bytes, results, response, oracle, prev>>

extract_multiple_fallback ==
    /\ pc = "fallback" /\ endpoint = "/extract-multiple"
    /\ \E p \in Pypdf2Choices :
        LET t == extract_text_with_pypdf2(p) IN
        /\ extracted_text' = t
        /\ obs' = [obs EXCEPT !.fallback = Extracted(pdf_bytes, t)]
    /\ log' = Append(log, [op |-> "pypdf2"])
    /\ pc' = "check"
    /\ UNCHANGED <<endpoint, data, urls, i, pdf_bytes, results, response, oracle, prev>>

extract_multiple_check ==
    /\ pc = "check" /\ endpoint = "/extract-multiple"
    /\ IF UnreadableBatch(extracted_text)
       THEN results' = Append(results, [url |-> url, success |-> FALSE,
                                        error |-> NoTextBatch])
       ELSE results' = Append(results, [url |-> url, success |-> TRUE,
                                        text |-> extracted_text.s,
                                        length |-> Len(extracted_text.s)])
    /\ log' = Append(log, [op |-> "append"])
    /\ obs' = [obs EXCEPT !.reported = TRUE]
    /\ NextIteration
    /\ UNCHANGED <<endpoint, data, urls, pdf_bytes, extracted_text, response, oracle, prev>>

extract_multiple_return ==
    /\ pc = "return" /\ endpoint = "/extract-multiple"
    /\ Respond(200, [success |-> TRUE, results |-> results,
                     total_processed |-> TotalProcessed])
    /\ UNCHANGED <<endpoint, data, urls, i, pdf_bytes, extracted_text, results, log,
                   obs, oracle, prev>>

Next == \/ extract_pdf_request
        \/ extract_pdf_download
        \/ extract_pdf_primary
        \/ extract_pdf_fallback
        \/ extract_pdf_check
        \/ extract_multiple_request
        \/ extract_multiple_download
        \/ extract_multiple_primary
        \/ extract_multiple_fallback
        \/ extract_multiple_check
        \/ extract_multiple_return

Spec == Init /\ [][Next]_vars

(***************************************************************************)
(* The same url requested from both endpoints against one fixed world:     *)
(* the answers of the HTTP client and of the two libraries are drawn once, *)
(* and the server handles one request after the other.                     *)
(***************************************************************************)
Oracles == {[set |-> TRUE, url |-> UrlA, http |-> h, plumber |-> p, pypdf2 |-> f] :
                h \in HttpResponses, p \in ParseOutcomes, f \in ParseOutcomes}

IsCall(e) == e.op \in {"get", "pdfplumber", "pypdf2"}

\* what a finished request says about its (only or last) url
UrlReport ==
    IF endpoint = "/extract-pdf"
    THEN IF response.status = 200
         THEN [success |-> TRUE, text |-> response.body.text,
               length |-> response.body.length, error |-> ""]
         ELSE [success |-> FALSE, text |-> <<>>, length |-> 0,
               error |-> response.body.error]
    ELSE LET res == results[Len(results)] IN
         IF res.success
         THEN [success |-> TRUE, text |-> res.text, length |-> res.length, error |-> ""]
         ELSE [success |-> FALSE, text |-> <<>>, length |-> 0, error |-> res.error]

InitEq == Idle /\ oracle \in Oracles /\ prev = NoPrev

\* the request is answered; the server takes the next one
next_request ==
    /\ pc = "done"
    /\ ~prev.set
    /\ prev' = [set |-> TRUE, endpoint |-> endpoint, report |-> UrlReport,
                calls |-> SelectSeq(log, IsCall)]
    /\ pc' = "idle"
    /\ endpoint' = "none"
    /\ data' = JNull
    /\ urls' = <<>>
    /\ i' = 0
    /\ pdf_bytes' = PyNone
    /\ extracted_text' = PyNone
    /\ results' = <<>>
    /\ response' = NoResponse
    /\ log' = <<>>
    /\ obs' = NoObs
    /\ UNCHANGED oracle

NextEq == Next \/ next_request

SpecEq == InitEq /\ [][NextEq]_vars

(***************************************************************************)
(* Vocabulary of the properties                                            *)
(***************************************************************************)
Single == endpoint = "/extract-pdf"

Batch == endpoint = "/extract-multiple"

\* the request body is an object with a `url` member
HasUrl == data.t = "obj" /\ "url" \in DOMAIN data.o

\* the request body is an object whose `urls` member is an array
HasUrlList == data.t = "obj" /\ "urls" \in DOMAIN data.o /\ data.o.urls.t = "arr"

InputUrls == data.o.urls.a

IsGet(e) == e.op = "get"

IsAppend(e) == e.op = "append"

IsPdfplumber(e) == e.op = "pdfplumber"

IsPypdf2(e) == e.op = "pypdf2"

Gets == SelectSeq(log, IsGet)

\* the part of the log that belongs to the url in hand: from its GET onwards
UrlLog == IF Gets = <<>> THEN <<>>
          ELSE LET last == CHOOSE k \in 1..Len(log) :
                               /\ IsGet(log[k])
                               /\ \A m \in (k + 1)..Len(log) : ~IsGet(log[m])
               IN SubSeq(log, last, Len(log))

\* the HTTP GET of the url in hand failed: it raised, or the status was an error
FetchFailed == /\ obs.http.called
               /\ \/ obs.http.ret.kind # "response"
                  \/ RaisesForStatus(obs.http.ret)

\* the HTTP GET of the url in hand completed with a success status
FetchCompleted == /\ obs.http.called
                  /\ obs.http.ret.kind = "response"
                  /\ ~RaisesForStatus(obs.http.ret)

Readable(t) == ~t.isNone /\ Len(Strip(t.s)) >= MinTextLen

PrimaryReadable == obs.primary.called /\ Readable(obs.primary.ret)

PrimaryUnreadable == obs.primary.called /\ ~Readable(obs.primary.ret)

(***************************************************************************)
(* C1: a batch request whose `urls` is a list of N urls is answered 200    *)
(* with exactly N results, result k carrying the k-th input url, and       *)
(* total_processed = N, whatever failed.                                   *)
(***************************************************************************)
C1_BatchResultPerUrl ==
    (pc = "done" /\ Batch /\ HasUrlList) =>
        /\ response.status = 200
        /\ Len(response.body.results) = Len(InputUrls)
        /\ \A k \in 1..Len(InputUrls) : response.body.results[k].url = InputUrls[k]
        /\ response.body.total_processed = Len(InputUrls)

\* a finished batch of two different urls, the first failed, the second succeeded
C1_Witness ==
    /\ pc = "done" /\ Batch /\ HasUrlList
    /\ Len(InputUrls) = 2 /\ InputUrls[1] # InputUrls[2]
    /\ ~response.body.results[1].success
    /\ response.body.results[2].success

(***************************************************************************)
(* C2: a result is reported successful only if its text, trimmed, has at   *)
(* least 10 characters, and its `length` is the length of its text.       *)
(***************************************************************************)
C2_SuccessMeansReadable ==
    /\ (pc = "done" /\ Single /\ response.status = 200) =>
          /\ response.body.success
          /\ Len(Strip(response.body.text)) >= MinTextLen
          /\ response.body.length = Len(response.body.text)
    /\ \A k \in 1..Len(results) :
          results[k].success =>
              /\ Len(Strip(results[k].text)) >= MinTextLen
              /\ results[k].length = Len(results[k].text)

\* both kinds of result at the threshold: one failed, one of exactly 10 characters
C2_Witness ==
    /\ pc = "done" /\ Batch /\ Len(results) = 2
    /\ ~results[1].success /\ results[1].error = NoTextBatch
    /\ results[2].success /\ results[2].length = MinTextLen

(***************************************************************************)
(* C3: when pdfplumber returns a text of trimmed length >= 10, PyPDF2 is   *)
(* not invoked for that url and the url is reported successful with        *)
(* exactly that (trimmed) text.                                            *)
(***************************************************************************)
C3_PrimarySuffices ==
    PrimaryReadable =>
        /\ ~obs.fallback.called
        /\ SelectSeq(UrlLog, IsPypdf2) = <<>>
        /\ pc # "fallback"
        /\ obs.reported =>
              /\ UrlReport.success
              /\ UrlReport.text = obs.primary.ret.s
              /\ UrlReport.text = Strip(UrlReport.text)
              /\ Single => response.status = 200

\* a url reported on the strength of a primary text of exactly 10 characters
C3_Witness ==
    /\ PrimaryReadable /\ obs.reported
    /\ Len(obs.primary.ret.s) = MinTextLen
    /\ UrlReport.success

(***************************************************************************)
(* C4: when pdfplumber returns nothing, an empty text or a text of trimmed *)
(* length < 10, PyPDF2 is invoked exactly once, on the downloaded bytes;   *)
(* the url succeeds with the PyPDF2 text if that is readable and fails     *)
(* otherwise.                                                              *)
(***************************************************************************)
C4_FallbackDecides ==
    PrimaryUnreadable =>
        /\ Len(SelectSeq(UrlLog, IsPypdf2)) = (IF pc = "fallback" THEN 0 ELSE 1)
        /\ pc # "fallback" => obs.fallback.called
        /\ obs.primary.arg = PyVal(obs.http.ret.content)
        /\ obs.fallback.called => obs.fallback.arg = obs.primary.arg
        /\ obs.reported =>
              IF Readable(obs.fallback.ret)
              THEN /\ UrlReport.success
                   /\ UrlReport.text = obs.fallback.ret.s
              ELSE /\ ~UrlReport.success
                   /\ UrlReport.error \in {NoTextSingle, NoTextBatch}

\* a short primary text and no fallback text: the short text is not a success
C4_Witness ==
    /\ PrimaryUnreadable /\ obs.reported
    /\ Truthy(obs.primary.ret) /\ Len(obs.primary.ret.s) = MinTextLen - 1
    /\ obs.fallback.ret.isNone
    /\ ~UrlReport.success

(***************************************************************************)
(* C5 (as claimed): a downloaded buffer, however short, that neither       *)
(* extractor can read is reported as a failure with the reason             *)
(* "Could not extract readable text", with status 400 on /extract-pdf.     *)
(***************************************************************************)
NoExtractorReadIt ==
    /\ obs.primary.called => obs.primary.ret.isNone
    /\ obs.fallback.called => obs.fallback.ret.isNone

C5_UnreadableBufferReason ==
    (obs.reported /\ FetchCompleted /\ NoExtractorReadIt) =>
        /\ ~UrlReport.success
        /\ UrlReport.error = NoTextBatch
        /\ Single => response.status = 400

(***************************************************************************)
(* C6: a failed download (network error, timeout, error status) is         *)
(* reported as "Failed to download PDF" (status 400 and the url echoed on  *)
(* /extract-pdf, a success:false element on /extract-multiple) and no      *)
(* extractor is invoked for that url.                                      *)
(***************************************************************************)
C6_DownloadFailure ==
    FetchFailed =>
        /\ obs.reported
        /\ ~UrlReport.success
        /\ UrlReport.error = DownloadFailed
        /\ Single => /\ response.status = 400
                     /\ response.body.url = data.o.url
        /\ Batch => results[Len(results)].url = InputUrls[Len(results)]
        /\ ~obs.primary.called /\ ~obs.fallback.called
        /\ SelectSeq(UrlLog, IsPdfplumber) = <<>>
        /\ SelectSeq(UrlLog, IsPypdf2) = <<>>

\* the second url of a batch gets an error status after the first succeeded
C6_Witness ==
    /\ FetchFailed /\ Batch /\ Len(results) = 2
    /\ obs.http.ret.kind = "response"
    /\ results[1].success
    /\ results[2].error = DownloadFailed

(***************************************************************************)
(* C7 (as claimed): a request without the required member (or, for the     *)
(* batch, whose `urls` is not an array) is answered 400 with an `error`    *)
(* member and causes no download or extraction.                            *)
(***************************************************************************)
C7_BadRequestIs400 ==
    (pc = "done" /\ ((Single /\ ~HasUrl) \/ (Batch /\ ~HasUrlList))) =>
        /\ response.status = 400
        /\ "error" \in DOMAIN response.body
        /\ log = <<>>

(***************************************************************************)
(* C8: a batch processes its urls one at a time in input order: the GETs   *)
(* are the input urls in order, each once; the GET of the next url comes   *)
(* after the result of the previous one was appended; the request ends     *)
(* with status 200 and every url fetched.                                  *)
(***************************************************************************)
C8_Sequential ==
    (Batch /\ HasUrlList) =>
        /\ Len(Gets) <= Len(InputUrls)
        /\ \A k \in 1..Len(Gets) : Gets[k].url = InputUrls[k]
        /\ \A k \in 1..Len(log) :
              LET before == SubSeq(log, 1, k - 1)
                  gets == Len(SelectSeq(before, IsGet))
                  appends == Len(SelectSeq(before, IsAppend))
              IN /\ IsGet(log[k]) => gets = appends
                 /\ IsAppend(log[k]) => gets = appends + 1
        /\ Len(SelectSeq(log, IsAppend)) = Len(results)
        /\ pc = "done" => /\ Len(Gets) = Len(InputUrls)
                          /\ response.status = 200

\* a finished batch of two urls whose first download failed
C8_Witness ==
    /\ Batch /\ HasUrlList /\ pc = "done"
    /\ Len(InputUrls) = 2
    /\ results[1].error = DownloadFailed
    /\ Len(Gets) = 2

(***************************************************************************)
(* C9 (as claimed): for the same url and the same answers of the HTTP      *)
(* client and the libraries, /extract-pdf and /extract-multiple report the *)
(* same verdict, calls, text, length and failure reason.                   *)
(***************************************************************************)
C9_SamePipeline ==
    (pc = "done" /\ prev.set /\ prev.endpoint # endpoint) =>
        /\ prev.report = UrlReport
        /\ prev.calls = SelectSeq(log, IsCall)

(***************************************************************************)
(* C10 (as claimed): a GET that completes with a success status counts as  *)
(* a successful download whatever the content type and the body: the       *)
(* primary extractor runs and the url is never reported as "Failed to      *)
(* download PDF".                                                          *)
(***************************************************************************)
C10_CompletedGetIsDownload ==
    FetchCompleted =>
        /\ pc = "primary" \/ obs.primary.called
        /\ obs.reported => UrlReport.error # DownloadFailed
====
